---- MODULE Spec2Model ----
(***************************************************************************)
(* Model of the submission-checking pipeline of the education platform:    *)
(* AIPhotoChecker.check_photo_submission (app/services/ai_checker.py) and   *)
(* the CacheManager it uses (app/utils/cache.py).                          *)
(*                                                                         *)
(* Conventions                                                             *)
(*  - the characters of a Python str are a sequence of one-character       *)
(*    strings; the state holds a text by its name, and Chars(name) are its  *)
(*    characters, so a state stays small however long the text;            *)
(*  - a Python dict is a function whose DOMAIN is the set of its keys;      *)
(*  - a score is an integer; a confidence is an integer number of          *)
(*    hundredths (80 stands for 0.8, 100 for 1.0);                         *)
(*  - None is the record [none |-> TRUE]; an Enum member of                *)
(*    CheckingQuality is [enum |-> name], which json.dumps cannot          *)
(*    serialise; a string in a JSON document is [str |-> s] and a number   *)
(*    that may be absent is [num |-> n].                                   *)
(***************************************************************************)
EXTENDS Integers, Sequences, FiniteSets, TLC

None == [none |-> TRUE]

(***************************************************************************)
(* Bounds of the model.                                                    *)
(***************************************************************************)
\* number of check_photo_submission calls one behaviour starts
MaxCalls == 2

\* slots for calls in progress
Calls == {1, 2}

Users == {1, 2}

Tiers == {"basic", "standard", "advanced", "premium"}

\* CheckingQuality.<X>: an Enum member (ai_checker.py:28-33)
CheckingQuality(t) == [enum |-> t]

(***************************************************************************)
(* Strings.                                                                *)
(***************************************************************************)
IsSpace(ch) == ch \in {" ", "\n", "\t"}

\* the characters matched by \w in the texts of the model
LowerLetters ==
    {"a", "b", "c", "d", "e", "f", "g", "h", "i", "j", "k", "l", "m",
     "n", "o", "p", "q", "r", "s", "t", "u", "v", "w", "x", "y", "z"}
Digits == {"0", "1", "2", "3", "4", "5", "6", "7", "8", "9"}
IsWordChar(ch) == ch \in LowerLetters \cup Digits \cup {"S", "_"}

\* str.lower(), on the alphabet of the model
LowerChar(ch) == IF ch = "S" THEN "s" ELSE ch

Lower(s) == [i \in 1..Len(s) |-> LowerChar(s[i])]

\* str.split(): the maximal runs of non-whitespace characters, as a set
\* (every use in the source wraps the list in set(...))
RECURSIVE SplitFrom(_, _, _)
SplitFrom(s, i, cur) ==
    IF i > Len(s)
    THEN IF cur = <<>> THEN {} ELSE {cur}
    ELSE IF IsSpace(s[i])
         THEN (IF cur = <<>> THEN {} ELSE {cur}) \cup SplitFrom(s, i + 1, <<>>)
         ELSE SplitFrom(s, i + 1, Append(cur, s[i]))

SplitWords(s) == SplitFrom(s, 1, <<>>)

\* re.sub(r'\s+', ' ', text)
RECURSIVE CollapseFrom(_, _)
CollapseFrom(s, i) ==
    IF i > Len(s) THEN <<>>
    ELSE IF IsSpace(s[i])
         THEN IF i > 1 /\ IsSpace(s[i - 1])
              THEN CollapseFrom(s, i + 1)
              ELSE <<" ">> \o CollapseFrom(s, i + 1)
         ELSE <<s[i]>> \o CollapseFrom(s, i + 1)

\* re.sub(r'^[^\w\s]+', '', text, flags=re.MULTILINE) once no newline is left:
\* the leading run of characters that are neither word characters nor spaces
RECURSIVE DropLeadingSymbols(_)
DropLeadingSymbols(s) ==
    IF s # <<>> /\ ~IsWordChar(Head(s)) /\ ~IsSpace(Head(s))
    THEN DropLeadingSymbols(Tail(s))
    ELSE s

RECURSIVE LStrip(_)
LStrip(s) == IF s # <<>> /\ IsSpace(Head(s)) THEN LStrip(Tail(s)) ELSE s

RECURSIVE RStrip(_)
RStrip(s) ==
    IF s # <<>> /\ IsSpace(s[Len(s)]) THEN RStrip(SubSeq(s, 1, Len(s) - 1)) ELSE s

\* AIPhotoChecker._clean_ocr_text
CleanOcrText(text) == RStrip(LStrip(DropLeadingSymbols(CollapseFrom(text, 1))))

(***************************************************************************)
(* The inputs of the model.                                                *)
(***************************************************************************)
\* the texts of the model, by name
Chars(name) ==
    CASE name = "" -> <<>>
      [] name = "sum_two" -> <<"S", "u", "m", " ", "t", "w", "o">>
      [] name = "area" -> <<"a", "r", "e", "a">>
      [] name = "short_raw" -> <<"|", "s", "u", "m", " ", " ", "5", "\n">>
      [] name = "short" -> <<"s", "u", "m", " ", "5">>
      [] name = "other_raw" -> <<"#", "a", "r", "e", "a", " ", "6", "\n">>
      [] name = "other" -> <<"a", "r", "e", "a", " ", "6">>
      [] name = "long" ->
          <<"S", "u", "m", " ", "t", "w", "o", " ", "a", "b", "c", "d", "e",
            "f", "g", "h", "i", "j", "k", "l", "n", "p", "q", "r", "s", "v",
            "x", "y", "z", "0", "1", "2", "3", "4", "5", "6", "7", "8", "9",
            "a", "b", "c", "d", "e", "f", "g", "h", "i", "j", "k", "l", "n">>

Strings == {"", "sum_two", "area", "short_raw", "short", "other_raw", "other", "long"}

\* the name of the text made of these characters
NameOf(chars) == CHOOSE name \in Strings : Chars(name) = chars

\* task descriptions
TaskDescriptions == {"sum_two", "area"}

\* what pytesseract.image_to_string may return
RawOutputs == {"", "short_raw", "long"}

\* the same with a second output as long as "short_raw"
OcrOutputs == RawOutputs \cup {"other_raw"}

\* photo files: a good image, a readable file that is no image, a missing file
Photos == {"good", "corrupt", "missing"}
Readable(photo) == photo # "missing"
Decodable(photo) == photo = "good"

\* hashlib.md5(...).hexdigest(): injective on the inputs of the model
Md5(x) == x


(***************************************************************************)
(* AIPhotoChecker._basic_analysis: the heuristic scorer.                   *)
(***************************************************************************)
\* the length above which a work has "sufficient volume"
MinTextLength == 50
LengthPoints == 30
RelevancePoints == 40
AttemptBonus == 20
MaxScore == 100
BasicConfidence == 50

Min2(a, b) == IF a < b THEN a ELSE b
Max2(a, b) == IF a > b THEN a ELSE b

TaskWords(task_description) == SplitWords(Lower(task_description))
TextWords(recognized_text) == SplitWords(Lower(recognized_text))
CommonWords(recognized_text, task_description) ==
    TaskWords(task_description) \cap TextWords(recognized_text)

\* relevance_score > 0.3, with relevance_score = common / max(len(task_words), 1)
Relevant(recognized_text, task_description) ==
    10 * Cardinality(CommonWords(recognized_text, task_description))
        > 3 * Max2(Cardinality(TaskWords(task_description)), 1)

\* points for the task words that are missing from the text
RelevanceScoreMissing(recognized_text, task_description) ==
    ((Cardinality(TaskWords(task_description))
        - Cardinality(CommonWords(recognized_text, task_description))) * RelevancePoints)
        \div Max2(Cardinality(TaskWords(task_description)), 1)

\* int(relevance_score * 40)
RelevanceScore(recognized_text, task_description) ==
    (Cardinality(CommonWords(recognized_text, task_description)) * RelevancePoints)
        \div Max2(Cardinality(TaskWords(task_description)), 1)

\* f"{relevance_score:.0%}" as a number of percent, rounded to nearest
RelevancePercent(recognized_text, task_description) ==
    LET n == Max2(Cardinality(TaskWords(task_description)), 1)
        k == Cardinality(CommonWords(recognized_text, task_description))
    IN  (200 * k + n) \div (2 * n)

BasicScore(recognized_text, task_description) ==
    Min2((IF Len(recognized_text) > MinTextLength THEN LengthPoints ELSE 0)
            + RelevanceScore(recognized_text, task_description)
            + AttemptBonus,
         MaxScore)

\* "\n".join(feedback_parts), kept as the sequence of its lines
BasicFeedback(recognized_text, task_description) ==
    <<IF Len(recognized_text) > MinTextLength
      THEN "OK sufficient volume of work"
      ELSE "FAIL work is too short",
      IF Relevant(recognized_text, task_description)
      THEN "OK work matches the task"
      ELSE "WARN work is weakly related to the task">>

BasicSuggestions(recognized_text, task_description) ==
    (IF Len(recognized_text) > MinTextLength
     THEN <<>> ELSE <<"write a more detailed answer">>)
    \o (IF Relevant(recognized_text, task_description)
        THEN <<>> ELSE <<"read the task carefully">>)

BasicAnalysis(recognized_text, task_description) ==
    [score |-> BasicScore(recognized_text, task_description),
     feedback |-> BasicFeedback(recognized_text, task_description),
     detailed_analysis |->
        [text_recognized |-> Len(recognized_text) > 0,
         text_length |-> Len(recognized_text),
         relevance |-> RelevancePercent(recognized_text, task_description)],
     confidence |-> BasicConfidence,
     suggestions |-> BasicSuggestions(recognized_text, task_description)]

(***************************************************************************)
(* AIPhotoChecker._perform_ocr and _check_plagiarism helpers that are       *)
(* tabulated once over the texts of the model.                             *)
(***************************************************************************)
\* the recognised texts the model can produce
CleanTable == {<<r, NameOf(CleanOcrText(Chars(r)))>> : r \in OcrOutputs}

\* self._clean_ocr_text(best_text), on the names of the texts
CleanOf(r) == (CHOOSE e \in CleanTable : e[1] = r)[2]

CleanTexts == {CleanOf(r) : r \in RawOutputs}

BasicAnalysisTable ==
    {<<p, BasicAnalysis(Chars(p[1]), Chars(p[2]))>> : p \in CleanTexts \X TaskDescriptions}

\* await self._basic_analysis(recognized_text, task_description)
BasicAnalysisOf(recognized_text, task_description) ==
    (CHOOSE e \in BasicAnalysisTable : e[1] = <<recognized_text, task_description>>)[2]

(***************************************************************************)
(* AIPhotoChecker._validate_ai_response.  A JSON number is [num |-> n], a   *)
(* JSON string in the place of a number is [str |-> s].                    *)
(***************************************************************************)
Num(n) == [num |-> n]
Str(s) == [str |-> s]

DefaultScore == 50
DefaultFeedback == <<"could not fully analyse the work">>
DefaultAnalysis == <<>>
DefaultConfidence == 80
DefaultSuggestions == <<>>

\* AIPhotoChecker._get_default_value on the three required fields
GetDefaultValue(field) ==
    CASE field = "score" -> Num(DefaultScore)
      [] field = "feedback" -> DefaultFeedback
      [] field = "detailed_analysis" -> DefaultAnalysis
      [] OTHER -> None

RequiredFields == {"score", "feedback", "detailed_analysis"}

\* float(x) raises ValueError or TypeError
FloatRaises(v) ==
    IF DOMAIN v = {"num"} THEN FALSE
    ELSE v.str \notin {"75"}

\* float(x), for the x on which it does not raise
Float(v) == IF DOMAIN v = {"num"} THEN v.num ELSE 75

\* the loop over required_fields
WithRequired(response) ==
    [k \in DOMAIN response \cup RequiredFields |->
        IF k \in DOMAIN response THEN response[k] ELSE GetDefaultValue(k)]

ValidateRaises(response) == FloatRaises(WithRequired(response).score)

\* a clamp that forgets the lower bound
ClampScoreUpperOnly(x) == Min2(MaxScore, x)

\* max(0, min(100, x))
ClampScore(x) == Max2(0, Min2(MaxScore, x))

ValidateAiResponse(response) ==
    LET r == WithRequired(response)
    IN  [k \in DOMAIN r \cup {"confidence", "suggestions"} |->
            CASE k = "score" -> ClampScore(Float(r.score))
              [] k = "confidence" /\ k \notin DOMAIN r -> DefaultConfidence
              [] k = "suggestions" /\ k \notin DOMAIN r -> DefaultSuggestions
              [] OTHER -> r[k]]

(***************************************************************************)
(* AIPhotoChecker._calculate_similarity: difflib.SequenceMatcher.ratio().  *)
(***************************************************************************)
RECURSIVE MatchLen(_, _, _, _, _, _)
MatchLen(a, b, i, j, ahi, bhi) ==
    IF i <= ahi /\ j <= bhi /\ a[i] = b[j]
    THEN 1 + MatchLen(a, b, i + 1, j + 1, ahi, bhi)
    ELSE 0

SetMax(S) == CHOOSE x \in S : \A y \in S : y <= x
SetMin(S) == CHOOSE x \in S : \A y \in S : x <= y

\* find_longest_match: <<i, j, k>>, the longest block, the earliest in a and
\* then the earliest in b among the longest; k = 0 when nothing matches
LongestMatch(a, b, alo, ahi, blo, bhi) ==
    LET k == SetMax({0} \cup {MatchLen(a, b, i, j, ahi, bhi) : i \in alo..ahi, j \in blo..bhi})
    IN  IF k = 0 THEN <<alo, blo, 0>>
        ELSE LET i == SetMin({x \in alo..ahi :
                        \E y \in blo..bhi : MatchLen(a, b, x, y, ahi, bhi) = k})
                 j == SetMin({y \in blo..bhi : MatchLen(a, b, i, y, ahi, bhi) = k})
             IN  <<i, j, k>>

\* the total size of get_matching_blocks() on a[alo..ahi], b[blo..bhi]
RECURSIVE Matches(_, _, _, _, _, _)
Matches(a, b, alo, ahi, blo, bhi) ==
    IF alo > ahi \/ blo > bhi THEN 0
    ELSE LET m == LongestMatch(a, b, alo, ahi, blo, bhi)
         IN  IF m[3] = 0 THEN 0
             ELSE m[3] + Matches(a, b, alo, m[1] - 1, blo, m[2] - 1)
                       + Matches(a, b, m[1] + m[3], ahi, m[2] + m[3], bhi)

\* 100 * ratio(): 100 * 2.0 * matches / (len(a) + len(b)), 100 for two empty texts
SimilarityPercent(text1, text2) ==
    IF Len(text1) + Len(text2) = 0 THEN 100
    ELSE (200 * Matches(text1, text2, 1, Len(text1), 1, Len(text2)))
            \div (Len(text1) + Len(text2))


(***************************************************************************)
(* What the AI completion service may do on one call.                      *)
(***************************************************************************)
RespGood ==
    [score |-> Num(85), feedback |-> <<"good work">>,
     detailed_analysis |-> [errors |-> <<>>],
     confidence |-> 90, suggestions |-> <<"check the units">>]
RespOver ==
    [score |-> Num(150), feedback |-> <<"excellent">>,
     detailed_analysis |-> [errors |-> <<>>], confidence |-> 250]
RespEmpty == <<>>
RespExtra ==
    [score |-> Num(70), feedback |-> <<"fine">>,
     detailed_analysis |-> [errors |-> <<>>], plagiarism_score |-> Num(12)]
RespBadScore ==
    [score |-> Str("high"), feedback |-> <<"fine">>,
     detailed_analysis |-> [errors |-> <<>>]]
Responses == {RespGood, RespOver, RespEmpty, RespExtra, RespBadScore}

\* the call raises (network error, timeout, rate limit), the content is no
\* JSON document, or the content is the JSON document r
AIRaises == [raises |-> TRUE]
AIBadJson == [badjson |-> TRUE]
AIReturns(r) == [json |-> r]
AIOutcomes == {AIRaises, AIBadJson} \cup {AIReturns(r) : r \in Responses}

\* json.loads(content) followed by _validate_ai_response raises
ParseRaises(outcome) ==
    \/ outcome = AIBadJson
    \/ DOMAIN outcome = {"json"} /\ ValidateRaises(outcome.json)

\* one attempt at the AI service fails: the client is None (AttributeError),
\* the call raises, or parsing and validating the content raises
AttemptFails(client, outcome) ==
    ~client \/ outcome = AIRaises \/ ParseRaises(outcome)


(***************************************************************************)
(* The state.                                                              *)
(***************************************************************************)
VARIABLES
    settings,       \* app.config.settings: DEBUG, and whether OPENAI_API_KEY is set
    cache_manager,  \* the CacheManager singleton: redis_client, _connected, and its client
    booted,         \* the application start-up (cache_manager.connect()) is over
    store,          \* Redis: the value stored under check:<key>, or None
    works,          \* Redis: the list works:<user_id>, most recent first
    call,           \* the check_photo_submission calls in progress
    started,        \* the number of calls started so far
    computed,       \* history: the first result computed for each cache key
    probe           \* a function under test: its name, its argument, its value

vars == <<settings, cache_manager, booted, store, works, call, started, computed, probe>>

\* the cache keys of the model: f"{file_hash}:{task_hash}"
CacheKeys == {<<Md5(p), Md5(t)>> : p \in {q \in Photos : Readable(q)}, t \in TaskDescriptions}

NoKey == <<>>

\* AIPhotoChecker._generate_cache_key, for a file that can be read
GenerateCacheKey(photo_path, task_description) == <<Md5(photo_path), Md5(task_description)>>

\* a call that has not started
Idle ==
    [pc |-> "idle", photo_path |-> "", task_description |-> "", user_id |-> 0,
     quality |-> None, cache_key |-> NoKey, recognized_text |-> "", attempt |-> 0,
     result |-> None, similar_works |-> <<>>, elapsed |-> 0, out |-> None,
     exc |-> "", hit |-> FALSE, ai_raised |-> 0, ai_json |-> None]

\* the fields of the CheckingResult dataclass; plagiarism_score has a default
ResultFields ==
    {"recognized_text", "score", "feedback", "detailed_analysis", "confidence_score",
     "processing_time", "status", "quality_level", "suggestions", "plagiarism_score"}

\* entries another writer may have left in Redis under a check:<key>: a
\* complete snapshot, and a document that lacks fields of CheckingResult
ForeignSnapshot ==
    [recognized_text |-> "short", score |-> 77, feedback |-> <<"stored">>,
     detailed_analysis |-> [errors |-> <<>>], confidence_score |-> 90,
     processing_time |-> 3, status |-> "checked", quality_level |-> Str("standard"),
     suggestions |-> <<>>, plagiarism_score |-> None]
ForeignPartial == [score |-> 77, feedback |-> <<"stored">>]
ForeignEntries == {ForeignSnapshot, ForeignPartial}

ForeignKey == GenerateCacheKey("good", "sum_two")

EmptyStore == [k \in CacheKeys |-> None]

\* what the Redis server may hold under the check:<key> keys when the
\* application connects to it
ServerContents ==
    {EmptyStore}
        \cup {[EmptyStore EXCEPT ![ForeignKey] = [json |-> e]] : e \in ForeignEntries}

\* the history of computed results is not kept
Untracked == [untracked |-> TRUE]

\* CacheManager.__init__: no client, not connected; built is the client
\* object redis.from_url makes (whether its ping raised, whether it has been
\* closed), None before there is one
NotConnected == [redis_client |-> None, connected |-> FALSE, built |-> None]

Init ==
    /\ settings \in [DEBUG : BOOLEAN, OPENAI_API_KEY : BOOLEAN]
    /\ cache_manager = NotConnected
    /\ booted = FALSE
    /\ store = EmptyStore
    /\ works = [u \in Users |-> <<>>]
    /\ call = [c \in Calls |-> Idle]
    /\ started = 0
    /\ computed = Untracked
    /\ probe = None

(***************************************************************************)
(* CacheManager (app/utils/cache.py).                                      *)
(***************************************************************************)
\* CacheManager.connect, awaited once by the application's start-up:
\* REDIS_URL may be unset, and the ping may fail; content is what the
\* server that answers the ping holds
Connect(redis_url, ping_ok, content) ==
    /\ ~booted
    /\ booted' = TRUE
    /\ cache_manager' =
         IF ~redis_url THEN cache_manager
         ELSE [redis_client |-> [client |-> TRUE], connected |-> ping_ok,
               built |-> [ping_raised |-> ~ping_ok, closed |-> FALSE]]
    /\ store' = IF redis_url /\ ping_ok THEN content ELSE store
    /\ UNCHANGED <<computed, probe, settings, works, call, started>>

\* json.dumps(value) raises TypeError: the value holds an Enum member
JsonDumpsRaises(value) == DOMAIN value.quality_level = {"enum"}

\* CacheManager.get: the value of the key, deserialised, or None
CacheGet(key) ==
    IF ~cache_manager.connected THEN None
    ELSE IF store[key] = None THEN None
    ELSE store[key].json

\* CacheManager.set on a dict: the store after the call
CacheSet(key, value) ==
    IF ~cache_manager.connected THEN store
    ELSE IF JsonDumpsRaises(value) THEN store
    ELSE [store EXCEPT ![key] = [json |-> value]]

\* an lrange that reads the list without looking at _connected
CacheLrangeUnguarded(user_id, end) ==
    SubSeq(works[user_id], 1, Min2(Len(works[user_id]), end + 1))

\* CacheManager.lrange(key, 0, end): the elements 0..end of the list
CacheLrange(user_id, end) ==
    IF ~cache_manager.connected THEN <<>>
    ELSE SubSeq(works[user_id], 1, Min2(Len(works[user_id]), end + 1))

\* an lpush on a key that leaves out the user: one list for all users
CacheLpushShared(user_id, value) ==
    IF ~cache_manager.connected THEN works
    ELSE [u \in Users |-> <<value>> \o works[u]]

\* cache_manager.lrange(f"works:{user_id}", 0, 100)
HistoryRangeEnd == 100

\* an lpush followed by a trim of the list to the entries one lrange reads
CacheLpushCapped(user_id, value) ==
    IF ~cache_manager.connected THEN works
    ELSE [works EXCEPT ![user_id] =
            SubSeq(<<value>> \o @, 1, Min2(Len(@) + 1, HistoryRangeEnd + 1))]

\* CacheManager.lpush: the lists after the call
CacheLpush(user_id, value) ==
    IF ~cache_manager.connected THEN works
    ELSE [works EXCEPT ![user_id] = <<value>> \o @]


(***************************************************************************)
(* AIPhotoChecker (app/services/ai_checker.py).                            *)
(***************************************************************************)
\* stop_after_attempt(3) on _advanced_analysis
MaxAttempts == 3

RetryHint == "try to upload a clearer photo"

\* the similarity of each pair of recognised texts, computed once
SimilarityTable ==
    {<<p, SimilarityPercent(Chars(p[1]), Chars(p[2]))>> : p \in CleanTexts \X CleanTexts}

\* AIPhotoChecker._calculate_similarity, in percent
CalculateSimilarity(text1, text2) ==
    (CHOOSE e \in SimilarityTable : e[1] = <<text1, text2>>)[2]

\* a max that keeps the last of the longest texts
RECURSIVE MaxByLenLast(_)
MaxByLenLast(texts) ==
    IF Len(texts) = 1 THEN texts[1]
    ELSE LET rest == MaxByLenLast(Tail(texts))
         IN  IF Len(Chars(rest)) >= Len(Chars(texts[1])) THEN rest ELSE texts[1]

\* max(texts, key=len): the first of the longest texts
RECURSIVE MaxByLen(_)
MaxByLen(texts) ==
    IF Len(texts) = 1 THEN texts[1]
    ELSE LET rest == MaxByLen(Tail(texts))
         IN  IF Len(Chars(rest)) > Len(Chars(texts[1])) THEN rest ELSE texts[1]

\* AIPhotoChecker._perform_ocr, given the outputs of the attempts that did
\* not raise, in order
PerformOcrOn(texts) == CleanOf(IF texts = <<>> THEN "" ELSE MaxByLen(texts))

\* max_similarity over similar_works, in percent: the loop starts from 0.0
\* and keeps the maximum
MaxSimilarity(text, similar_works) ==
    SetMax({0} \cup {CalculateSimilarity(text, similar_works[i]) :
                        i \in DOMAIN similar_works})

\* a return that gives the similarity instead of the uniqueness
UniquenessAsSimilarity(text, similar_works) == MaxSimilarity(text, similar_works)

\* the value _check_plagiarism returns
Uniqueness(text, similar_works) == 100 - MaxSimilarity(text, similar_works)

\* result.get(key, default)
DictGet(d, key, default) == IF key \in DOMAIN d THEN d[key] ELSE default

\* the CheckingResult built at the end of the try block
CheckedResult(recognized_text, result, processing_time, quality) ==
    [recognized_text |-> recognized_text,
     score |-> result.score,
     feedback |-> result.feedback,
     detailed_analysis |-> result.detailed_analysis,
     confidence_score |-> DictGet(result, "confidence", DefaultConfidence),
     processing_time |-> processing_time,
     status |-> "checked",
     quality_level |-> quality,
     suggestions |-> DictGet(result, "suggestions", <<>>),
     plagiarism_score |-> DictGet(result, "plagiarism_score", None)]

\* an except clause that gives no suggestion
FailedResultNoHint(e, processing_time, quality) ==
    [recognized_text |-> "",
     score |-> 0,
     feedback |-> <<"error while checking", e>>,
     detailed_analysis |-> [error |-> e],
     confidence_score |-> 0,
     processing_time |-> processing_time,
     status |-> "failed",
     quality_level |-> quality,
     suggestions |-> <<>>,
     plagiarism_score |-> None]

\* the CheckingResult built by the except clause
FailedResult(e, processing_time, quality) ==
    [recognized_text |-> "",
     score |-> 0,
     feedback |-> <<"error while checking", e>>,
     detailed_analysis |-> [error |-> e],
     confidence_score |-> 0,
     processing_time |-> processing_time,
     status |-> "failed",
     quality_level |-> quality,
     suggestions |-> <<RetryHint>>,
     plagiarism_score |-> None]

\* CheckingResult(**cached_result) raises TypeError
FromDictRaises(d) ==
    ~(DOMAIN d \subseteq ResultFields
      /\ (ResultFields \ {"plagiarism_score"}) \subseteq DOMAIN d)

\* CheckingResult(**cached_result)
FromDict(d) == [f \in ResultFields |-> DictGet(d, f, None)]

\* the truth value of what cache_manager.get returned
Truthy(v) == v # None /\ DOMAIN v # {}

\* the caller starts a call; _generate_cache_key opens the photo, outside
\* the try block
Start(c, photo_path, task_description, user_id, quality) ==
    /\ booted
    /\ call[c].pc = "idle"
    /\ started < MaxCalls
    /\ started' = started + 1
    /\ call' = [call EXCEPT ![c] =
         IF Readable(photo_path)
         THEN [Idle EXCEPT !.pc = "lookup", !.photo_path = photo_path,
                           !.task_description = task_description,
                           !.user_id = user_id, !.quality = CheckingQuality(quality),
                           !.cache_key = GenerateCacheKey(photo_path, task_description)]
         ELSE [Idle EXCEPT !.pc = "raised", !.photo_path = photo_path,
                           !.task_description = task_description,
                           !.user_id = user_id, !.quality = CheckingQuality(quality),
                           !.exc = "FileNotFoundError"]]
    /\ UNCHANGED <<computed, probe, settings, cache_manager, booted, store, works>>

\* a cache hit that reports the tier of the call that hit
CacheLookupOwnTier(c) ==
    /\ call[c].pc = "lookup"
    /\ LET cached == CacheGet(call[c].cache_key)
           me == call[c]
       IN  call' = [call EXCEPT ![c] =
             IF Truthy(cached) /\ ~settings.DEBUG
             THEN IF FromDictRaises(cached)
                  THEN [me EXCEPT !.pc = "raised", !.exc = "TypeError",
                                  !.elapsed = @ + 1]
                  ELSE [me EXCEPT !.pc = "done",
                                  !.out = [FromDict(cached) EXCEPT
                                              !.quality_level = me.quality],
                                  !.hit = TRUE, !.elapsed = @ + 1]
             ELSE [me EXCEPT !.pc = "preprocess", !.elapsed = @ + 1]]
    /\ UNCHANGED <<computed, probe, settings, cache_manager, booted, store, works, started>>

\* cached_result = await cache_manager.get(...); the early return
CacheLookup(c) ==
    /\ call[c].pc = "lookup"
    /\ LET cached == CacheGet(call[c].cache_key)
       IN  call' = [call EXCEPT ![c] =
             IF Truthy(cached) /\ ~settings.DEBUG
             THEN IF FromDictRaises(cached)
                  THEN [@ EXCEPT !.pc = "raised", !.exc = "TypeError",
                                 !.elapsed = @ + 1]
                  ELSE [@ EXCEPT !.pc = "done", !.out = FromDict(cached),
                                 !.hit = TRUE, !.elapsed = @ + 1]
             ELSE [@ EXCEPT !.pc = "preprocess", !.elapsed = @ + 1]]
    /\ UNCHANGED <<computed, probe, settings, cache_manager, booted, store, works, started>>

\* self.preprocessor.preprocess(photo_path): cv2 raises on a file that is no image
Preprocess(c) ==
    /\ call[c].pc = "preprocess"
    /\ LET me == call[c]
       IN  call' = [call EXCEPT ![c] =
             IF Decodable(me.photo_path)
             THEN [me EXCEPT !.pc = "ocr"]
             ELSE [me EXCEPT !.pc = "done", !.exc = "cv2.error",
                             !.out = FailedResult("cv2.error", me.elapsed, me.quality)]]
    /\ UNCHANGED <<computed, probe, settings, cache_manager, booted, store, works, started>>

\* await self._perform_ocr(...): each attempt raises or returns a text
PerformOcr(c, raises1, text1, raises2, text2) ==
    /\ call[c].pc = "ocr"
    /\ LET texts == (IF raises1 THEN <<>> ELSE <<text1>>)
                    \o (IF raises2 THEN <<>> ELSE <<text2>>)
       IN  call' = [call EXCEPT ![c] =
             [@ EXCEPT !.pc = "analysis", !.recognized_text = PerformOcrOn(texts)]]
    /\ UNCHANGED <<computed, probe, settings, cache_manager, booted, store, works, started>>


\* quality == CheckingQuality.BASIC: await self._basic_analysis(...)
BasicTier(c) ==
    /\ call[c].pc = "analysis"
    /\ call[c].quality = CheckingQuality("basic")
    /\ LET me == call[c]
       IN  call' = [call EXCEPT ![c] =
             [me EXCEPT !.pc = "assemble",
                        !.result = BasicAnalysisOf(me.recognized_text, me.task_description)]]
    /\ UNCHANGED <<computed, probe, settings, cache_manager, booted, store, works, started>>

\* the result of _standard_analysis: one call of the AI service inside a
\* try block, and _basic_analysis when there is no client or anything raises
StandardResult(client, outcome, recognized_text, task_description) ==
    IF AttemptFails(client, outcome)
    THEN BasicAnalysisOf(recognized_text, task_description)
    ELSE ValidateAiResponse(outcome.json)

\* the else branch (STANDARD): await self._standard_analysis(...)
StandardTier(c, outcome) ==
    /\ call[c].pc = "analysis"
    /\ call[c].quality = CheckingQuality("standard")
    /\ LET me == call[c]
       IN  call' = [call EXCEPT ![c] =
             [me EXCEPT !.pc = "assemble",
                        !.attempt = IF settings.OPENAI_API_KEY THEN 1 ELSE 0,
                        !.ai_raised = IF settings.OPENAI_API_KEY /\ outcome = AIRaises
                                      THEN 1 ELSE 0,
                        !.ai_json = IF AttemptFails(settings.OPENAI_API_KEY, outcome)
                                    THEN None ELSE outcome.json,
                        !.elapsed = IF settings.OPENAI_API_KEY THEN @ + 1 ELSE @,
                        !.result = StandardResult(settings.OPENAI_API_KEY, outcome,
                                        me.recognized_text, me.task_description)]]
    /\ UNCHANGED <<computed, probe, settings, cache_manager, booted, store, works, started>>

\* a stop condition that allows one attempt more
RetryStopsLate(attempt) == attempt > MaxAttempts

\* what the retry decorator does after a failed attempt: it raises
\* RetryError once stop_after_attempt(3) is reached, and waits and calls
\* _advanced_analysis again before
RetryStops(attempt) == attempt >= MaxAttempts

\* a retry that wraps the OCR step too: a failed attempt goes back to OCR
AdvancedAttemptRerunsOcr(c, outcome) ==
    /\ call[c].pc = "analysis"
    /\ call[c].quality \in {CheckingQuality("advanced"), CheckingQuality("premium")}
    /\ LET me == call[c]
           n == me.attempt + 1
           r == IF settings.OPENAI_API_KEY /\ outcome = AIRaises
                THEN me.ai_raised + 1 ELSE me.ai_raised
       IN  call' = [call EXCEPT ![c] =
             IF AttemptFails(settings.OPENAI_API_KEY, outcome)
             THEN IF RetryStops(n)
                  THEN [me EXCEPT !.pc = "done", !.attempt = n, !.elapsed = @ + 1,
                                  !.ai_raised = r, !.exc = "RetryError",
                                  !.out = FailedResult("RetryError", me.elapsed + 1,
                                                       me.quality)]
                  ELSE [me EXCEPT !.attempt = n, !.ai_raised = r, !.elapsed = @ + 1,
                                  !.pc = "ocr"]
             ELSE [me EXCEPT !.attempt = n, !.elapsed = @ + 1,
                             !.ai_json = outcome.json,
                             !.result = ValidateAiResponse(outcome.json),
                             !.pc = IF me.quality = CheckingQuality("premium")
                                    THEN "plagiarism" ELSE "assemble"]]
    /\ UNCHANGED <<computed, probe, settings, cache_manager, booted, store, works, started>>

\* ADVANCED or PREMIUM: one attempt of the retried _advanced_analysis
AdvancedAttempt(c, outcome) ==
    /\ call[c].pc = "analysis"
    /\ call[c].quality \in {CheckingQuality("advanced"), CheckingQuality("premium")}
    /\ LET me == call[c]
           n == me.attempt + 1
           r == IF settings.OPENAI_API_KEY /\ outcome = AIRaises
                THEN me.ai_raised + 1 ELSE me.ai_raised
       IN  call' = [call EXCEPT ![c] =
             IF AttemptFails(settings.OPENAI_API_KEY, outcome)
             THEN IF RetryStops(n)
                  THEN [me EXCEPT !.pc = "done", !.attempt = n, !.elapsed = @ + 1,
                                  !.ai_raised = r, !.exc = "RetryError",
                                  !.out = FailedResult("RetryError", me.elapsed + 1,
                                                       me.quality)]
                  ELSE [me EXCEPT !.attempt = n, !.ai_raised = r, !.elapsed = @ + 1]
             ELSE [me EXCEPT !.attempt = n, !.elapsed = @ + 1,
                             !.ai_json = outcome.json,
                             !.result = ValidateAiResponse(outcome.json),
                             !.pc = IF me.quality = CheckingQuality("premium")
                                    THEN "plagiarism" ELSE "assemble"]]
    /\ UNCHANGED <<computed, probe, settings, cache_manager, booted, store, works, started>>

\* _check_plagiarism, up to its first await: the lrange of the user's history
PlagiarismRead(c) ==
    /\ call[c].pc = "plagiarism"
    /\ LET me == call[c]
       IN  call' = [call EXCEPT ![c] =
             [me EXCEPT !.pc = "plagiarism_push", !.elapsed = @ + 1,
                        !.similar_works = CacheLrange(me.user_id, HistoryRangeEnd)]]
    /\ UNCHANGED <<computed, probe, settings, cache_manager, booted, store, works, started>>

\* the rest of _check_plagiarism: the lpush of the text and the value
\* returned, which the caller puts in result["plagiarism_score"]
PlagiarismPush(c) ==
    /\ call[c].pc = "plagiarism_push"
    /\ LET me == call[c]
       IN  /\ works' = CacheLpush(me.user_id, me.recognized_text)
           /\ call' = [call EXCEPT ![c] =
                [me EXCEPT !.pc = "assemble", !.elapsed = @ + 1,
                           !.result = [k \in DOMAIN me.result \cup {"plagiarism_score"} |->
                                IF k = "plagiarism_score"
                                THEN Num(Uniqueness(me.recognized_text, me.similar_works))
                                ELSE me.result[k]]]]
    /\ UNCHANGED <<computed, probe, settings, cache_manager, booted, store, started>>

\* the CheckingResult is built and cached (ttl=3600), then returned
Assemble(c) ==
    /\ call[c].pc = "assemble"
    /\ LET me == call[c]
           checking_result ==
               CheckedResult(me.recognized_text, me.result, me.elapsed, me.quality)
       IN  /\ store' = CacheSet(me.cache_key, checking_result)
           /\ call' = [call EXCEPT ![c] =
                [me EXCEPT !.pc = "done", !.elapsed = @ + 1, !.out = checking_result]]
           /\ computed' =
                IF computed # Untracked /\ cache_manager.connected /\ ~settings.DEBUG
                   /\ computed[me.cache_key] = None
                THEN [computed EXCEPT ![me.cache_key] = checking_result]
                ELSE computed
    /\ UNCHANGED <<probe, settings, cache_manager, booted, works, started>>

\* the caller has the CheckingResult; the call is over
Return(c) ==
    /\ call[c].pc = "done"
    /\ call' = [call EXCEPT ![c] = Idle]
    /\ UNCHANGED <<computed, probe, settings, cache_manager, booted, store, works, started>>

\* the exception that escaped reaches the caller; the call is over
Propagate(c) ==
    /\ call[c].pc = "raised"
    /\ call' = [call EXCEPT ![c] = Idle]
    /\ UNCHANGED <<computed, probe, settings, cache_manager, booted, store, works, started>>

\* no other call is in progress
Alone(c) == \A d \in Calls \ {c} : call[d].pc = "idle"

\* the steps of the calls, one call at a time
Next ==
    \/ \E redis_url \in BOOLEAN, ping_ok \in BOOLEAN, content \in ServerContents :
            Connect(redis_url, ping_ok, content)
    \/ \E photo_path \in Photos, task_description \in TaskDescriptions,
          user_id \in Users, quality \in Tiers :
            Alone(1) /\ Start(1, photo_path, task_description, user_id, quality)
    \/ \E c \in Calls : CacheLookup(c)
    \/ \E c \in Calls : Preprocess(c)
    \/ \E c \in Calls, raises1 \in BOOLEAN, raises2 \in BOOLEAN,
          text1 \in RawOutputs, text2 \in RawOutputs :
            PerformOcr(c, raises1, text1, raises2, text2)
    \/ \E c \in Calls : BasicTier(c)
    \/ \E c \in Calls, outcome \in AIOutcomes : StandardTier(c, outcome)
    \/ \E c \in Calls, outcome \in AIOutcomes : AdvancedAttempt(c, outcome)
    \/ \E c \in Calls : PlagiarismRead(c)
    \/ \E c \in Calls : PlagiarismPush(c)
    \/ \E c \in Calls : Assemble(c)
    \/ \E c \in Calls : Return(c)
    \/ \E c \in Calls : Propagate(c)

Spec == Init /\ [][Next]_vars


\* the same steps when every call that can take a step eventually takes
\* one: the event loop resumes each coroutine, and each external call
\* (cache, OCR, AI service) eventually returns or fails
SpecLive == Init /\ [][Next]_vars /\ WF_vars(Next)

(***************************************************************************)
(* The specification in which the history of computed results is kept:     *)
(* an AI client is configured and the cache is not bypassed.               *)
(***************************************************************************)
InitCache ==
    /\ settings = [DEBUG |-> FALSE, OPENAI_API_KEY |-> TRUE]
    /\ cache_manager = NotConnected
    /\ booted = FALSE
    /\ store = EmptyStore
    /\ works = [u \in Users |-> <<>>]
    /\ call = [c \in Calls |-> Idle]
    /\ started = 0
    /\ computed = [k \in CacheKeys |-> None]
    /\ probe = None

SpecCache == InitCache /\ [][Next]_vars

(***************************************************************************)
(* The specification in which the Redis server already holds submission    *)
(* histories when the application starts: the lists works:<user_id> are    *)
(* never trimmed and outlive the process.                                  *)
(***************************************************************************)
\* n copies of the text
Repeat(text, n) == [i \in 1..n |-> text]

\* a history longer than one lrange reads, whose oldest entry alone is "long"
OldHistory == Repeat("short", HistoryRangeEnd + 1) \o <<"long">>

InitialHistories ==
    {[u \in Users |-> <<>>],
     [u \in Users |-> IF u = 1 THEN OldHistory ELSE <<>>],
     [u \in Users |-> IF u = 1 THEN <<>> ELSE <<"long">>]}

InitHistory ==
    /\ settings = [DEBUG |-> FALSE, OPENAI_API_KEY |-> TRUE]
    /\ cache_manager = NotConnected
    /\ booted = FALSE
    /\ store = EmptyStore
    /\ works \in InitialHistories
    /\ call = [c \in Calls |-> Idle]
    /\ started = 0
    /\ computed = Untracked
    /\ probe = None

\* the steps of premium-tier calls on a photo that can be read and decoded
NextHistory ==
    \/ \E redis_url \in BOOLEAN, ping_ok \in BOOLEAN, content \in ServerContents :
            Connect(redis_url, ping_ok, content)
    \/ \E task_description \in TaskDescriptions, user_id \in Users :
            Alone(1) /\ Start(1, "good", task_description, user_id, "premium")
    \/ \E c \in Calls : CacheLookup(c)
    \/ \E c \in Calls : Preprocess(c)
    \/ \E c \in Calls, raises1 \in BOOLEAN, raises2 \in BOOLEAN,
          text1 \in RawOutputs, text2 \in RawOutputs :
            PerformOcr(c, raises1, text1, raises2, text2)
    \/ \E c \in Calls, outcome \in AIOutcomes : AdvancedAttempt(c, outcome)
    \/ \E c \in Calls : PlagiarismRead(c)
    \/ \E c \in Calls : PlagiarismPush(c)
    \/ \E c \in Calls : Assemble(c)
    \/ \E c \in Calls : Return(c)

SpecHistory == InitHistory /\ [][NextHistory]_vars

(***************************************************************************)
(* _validate_ai_response on its own, over the responses an AI service can  *)
(* send: every subset of the keys, the score below, in and above the       *)
(* range, and a score that is a string.                                    *)
(***************************************************************************)
ResponseKeys ==
    {"score", "feedback", "detailed_analysis", "confidence", "suggestions",
     "plagiarism_score"}

FieldValues(k) ==
    CASE k = "score" ->
            {Num(0 - 5), Num(0), Num(60), Num(100), Num(150), Str("75"), Str("high")}
      [] k = "feedback" -> {<<"fine">>}
      [] k = "detailed_analysis" -> {[errors |-> <<>>]}
      [] k = "confidence" -> {30, 250}
      [] k = "suggestions" -> {<<"hint">>}
      [] k = "plagiarism_score" -> {Num(12)}

\* the dict d with d[k] = v
WithKey(d, k, v) == [x \in DOMAIN d \cup {k} |-> IF x = k THEN v ELSE d[x]]

RECURSIVE DictsOver(_)
DictsOver(keys) ==
    IF keys = {} THEN {<<>>}
    ELSE LET k == CHOOSE x \in keys : TRUE
             rest == DictsOver(keys \ {k})
         IN  rest \cup {WithKey(d, k, v) : d \in rest, v \in FieldValues(k)}

AllResponses == DictsOver(ResponseKeys)

Raised == [raised |-> TRUE]

InitValidate ==
    /\ settings = [DEBUG |-> FALSE, OPENAI_API_KEY |-> TRUE]
    /\ cache_manager = NotConnected
    /\ booted = FALSE
    /\ store = EmptyStore
    /\ works = [u \in Users |-> <<>>]
    /\ call = [c \in Calls |-> Idle]
    /\ started = 0
    /\ computed = Untracked
    /\ probe \in {[fn |-> "validate", arg |-> r, value |-> None] : r \in AllResponses}

\* self._validate_ai_response(result) is called
ApplyValidate ==
    /\ probe # None
    /\ probe.fn = "validate"
    /\ probe.value = None
    /\ probe' = [probe EXCEPT !.value =
                    IF ValidateRaises(probe.arg) THEN Raised
                    ELSE ValidateAiResponse(probe.arg)]
    /\ UNCHANGED <<settings, cache_manager, booted, store, works, call, started, computed>>

SpecValidate == InitValidate /\ [][ApplyValidate]_vars

(***************************************************************************)
(* _basic_analysis on its own, over recognised texts of zero to two words  *)
(* followed by nothing or by one long word, so that texts of the same      *)
(* length differ in their overlap with the task description and the        *)
(* lengths fall on both sides of the length rule.                          *)
(***************************************************************************)
ProbeWords == {<<"s", "u", "m">>, <<"t", "w", "o">>, <<"a", "b", "c">>}

ProbeBodies ==
    {<<>>} \cup ProbeWords \cup {v \o <<" ">> \o w : v \in ProbeWords, w \in ProbeWords}

\* the lengths of the long word
PadLengths == {0, 25, 55}

Padded(body, n) ==
    IF n = 0 THEN body
    ELSE IF body = <<>> THEN Repeat("z", n) ELSE body \o <<" ">> \o Repeat("z", n)

ProbeTexts == {Padded(body, n) : body \in ProbeBodies, n \in PadLengths}

ProbeTasks == {Chars("sum_two"), Chars("area"), <<"t", "w", "o">>, <<>>}

InitBasic ==
    /\ settings = [DEBUG |-> FALSE, OPENAI_API_KEY |-> FALSE]
    /\ cache_manager = NotConnected
    /\ booted = FALSE
    /\ store = EmptyStore
    /\ works = [u \in Users |-> <<>>]
    /\ call = [c \in Calls |-> Idle]
    /\ started = 0
    /\ computed = Untracked
    /\ probe \in {[fn |-> "basic", recognized_text |-> t, task_description |-> d,
                   value |-> None] : t \in ProbeTexts, d \in ProbeTasks}

\* await self._basic_analysis(recognized_text, task_description) is called
ApplyBasic ==
    /\ probe # None
    /\ probe.fn = "basic"
    /\ probe.value = None
    /\ probe' = [probe EXCEPT !.value =
                    BasicAnalysis(probe.recognized_text, probe.task_description)]
    /\ UNCHANGED <<settings, cache_manager, booted, store, works, call, started, computed>>

SpecBasic == InitBasic /\ [][ApplyBasic]_vars

(***************************************************************************)
(* process_submission (app/routers/submissions.py): the background task    *)
(* that calls check_photo_submission with the default tier and writes the  *)
(* outcome to the submission, the user and the transactions.               *)
(***************************************************************************)
\* the CheckingResult values a standard-tier call returns, and a call that
\* raises
StandardAnalyses ==
    {ValidateAiResponse(r) : r \in {RespGood, RespOver, RespEmpty}}
        \cup {BasicAnalysisOf(t, d) : t \in CleanTexts, d \in TaskDescriptions}

CheckOutcomes ==
    {[raises |-> "TypeError"]}
        \cup {[returns |-> FailedResult("cv2.error", 1, CheckingQuality("standard"))]}
        \cup {[returns |-> CheckedResult("short", r, 2, CheckingQuality("standard"))] :
                r \in StandardAnalyses}

\* Task.reward_coins, Task.reward_exp
TaskRewards == [reward_coins : {10, 100}, reward_exp : {20, 100}]

\* calculate_coins: int(base_reward * max(0.1, score / 100))
CalculateCoins(score, base_reward) ==
    IF score < 10 THEN base_reward \div 10 ELSE (base_reward * score) \div 100

\* calculate_exp: int(base_exp * max(0.3, score / 100))
CalculateExp(score, base_exp) ==
    IF score < 30 THEN (3 * base_exp) \div 10 ELSE (base_exp * score) \div 100

\* calculate_level: max(1, int(math.sqrt(experience / 100)) + 1)
CalculateLevel(experience) ==
    Max2(1, 1 + (CHOOSE k \in 0..(experience \div 100) :
                    k * k <= experience \div 100 /\ (k + 1) * (k + 1) > experience \div 100))

\* the User rows the submission's user_id may select: none, or a user
UserRows ==
    {None} \cup {[coins |-> c, experience |-> x, tasks_completed |-> n,
                  level |-> CalculateLevel(x)] :
                    c \in {0, 40}, x \in {0, 95}, n \in {0, 3}}

\* the Submission row submit_photo_task created
ProcessingSubmission ==
    [status |-> "processing", score |-> None, ai_feedback |-> None,
     coins_earned |-> 0, exp_earned |-> 0]

InitSubmission ==
    /\ settings = [DEBUG |-> FALSE, OPENAI_API_KEY |-> TRUE]
    /\ cache_manager = NotConnected
    /\ booted = FALSE
    /\ store = EmptyStore
    /\ works = [u \in Users |-> <<>>]
    /\ call = [c \in Calls |-> Idle]
    /\ started = 0
    /\ computed = Untracked
    /\ probe \in {[fn |-> "process_submission", outcome |-> o, task |-> t,
                   submission |-> ProcessingSubmission, user0 |-> u, user |-> u,
                   transactions |-> <<>>, value |-> None] :
                    o \in CheckOutcomes, t \in TaskRewards, u \in UserRows}

\* the user row after the rewards and the level check
RewardedUser(user, coins_earned, exp_earned) ==
    LET experience == user.experience + exp_earned
        new_level == CalculateLevel(experience)
    IN  [coins |-> user.coins + coins_earned
                    + (IF new_level > user.level THEN 50 ELSE 0),
         experience |-> experience,
         tasks_completed |-> user.tasks_completed + 1,
         level |-> IF new_level > user.level THEN new_level ELSE user.level]

\* process_submission, from the call of check_photo_submission to the commit
ProcessSubmission ==
    /\ probe # None
    /\ probe.fn = "process_submission"
    /\ probe.value = None
    /\ probe' =
         IF "raises" \in DOMAIN probe.outcome
         THEN [probe EXCEPT !.value = [done |-> TRUE],
                            !.submission.status = "failed",
                            !.submission.ai_feedback = <<"error while processing",
                                                         probe.outcome.raises>>]
         ELSE LET checking_result == probe.outcome.returns
                  coins_earned == CalculateCoins(checking_result.score,
                                                 probe.task.reward_coins)
                  exp_earned == CalculateExp(checking_result.score,
                                             probe.task.reward_exp)
                  user == IF probe.user = None THEN None
                          ELSE RewardedUser(probe.user, coins_earned, exp_earned)
              IN  [probe EXCEPT
                     !.value = [done |-> TRUE],
                     !.submission = [status |-> "checked",
                                     score |-> checking_result.score,
                                     ai_feedback |-> checking_result.feedback,
                                     coins_earned |-> coins_earned,
                                     exp_earned |-> exp_earned],
                     !.user = user,
                     !.transactions =
                        <<[coins_amount |-> coins_earned, exp_amount |-> exp_earned,
                           transaction_type |-> "task_reward",
                           coins_balance |-> IF user = None THEN 0 ELSE user.coins]>>]
    /\ UNCHANGED <<settings, cache_manager, booted, store, works, call, started, computed>>

SpecSubmission == InitSubmission /\ [][ProcessSubmission]_vars

(***************************************************************************)
(* The claims.                                                             *)
(***************************************************************************)
Done(c) == call[c].pc = "done"

AITiers ==
    {CheckingQuality("standard"), CheckingQuality("advanced"), CheckingQuality("premium")}

\* the call made at least one attempt at the AI service, and the service
\* raised on every attempt made
EveryAttemptRaised(c) ==
    /\ settings.OPENAI_API_KEY
    /\ call[c].attempt >= 1
    /\ call[c].ai_raised = call[c].attempt

\* the CheckingResult carries the score, the feedback and the confidence of
\* _basic_analysis on the call's recognised text
IsHeuristicResult(c) ==
    LET basic == BasicAnalysis(Chars(call[c].recognized_text),
                               Chars(call[c].task_description))
    IN  /\ call[c].out.score = basic.score
        /\ call[c].out.feedback = basic.feedback
        /\ call[c].out.confidence_score = 50

\* C1: check_photo_submission never lets an exception escape: whatever
\* fails at any step, the call returns a CheckingResult.
C1_NeverRaises == \A c \in Calls : call[c].pc # "raised"

\* C2 (Scenario C): in every tier that uses the AI service, when the AI call
\* fails on all attempts, the call returns the heuristic scorer's result
\* with status "checked", never "failed".
C2_ScenarioC ==
    \A c \in Calls :
        (Done(c) /\ call[c].quality \in AITiers /\ EveryAttemptRaised(c))
            => (call[c].out.status = "checked" /\ IsHeuristicResult(c))

\* C3 (Scenario B): in every tier that uses the AI service, when the AI call
\* fails on the first two attempts and succeeds on the third, the result is
\* that of the validated third response: the call does not give up before
\* the third attempt, and a third attempt that succeeds after two failures
\* decides the score, the feedback and the detailed analysis.
C3_ScenarioB ==
    \A c \in Calls :
        (Done(c) /\ call[c].quality \in AITiers /\ settings.OPENAI_API_KEY
                 /\ call[c].attempt >= 1)
            => /\ call[c].ai_raised = call[c].attempt => call[c].attempt = 3
               /\ (call[c].attempt = 3 /\ call[c].ai_raised = 2 /\ call[c].ai_json # None)
                    => /\ call[c].out.status = "checked"
                       /\ call[c].out.score = ValidateAiResponse(call[c].ai_json).score
                       /\ call[c].out.feedback = ValidateAiResponse(call[c].ai_json).feedback
                       /\ call[c].out.detailed_analysis
                            = ValidateAiResponse(call[c].ai_json).detailed_analysis

\* C4: every CheckingResult returned has 0 <= score <= 100 and
\* 0 <= confidence_score <= 1 (100 hundredths).
C4_ScoreRanges ==
    \A c \in Calls :
        Done(c) => /\ call[c].out.score >= 0 /\ call[c].out.score <= 100
                   /\ call[c].out.confidence_score >= 0
                   /\ call[c].out.confidence_score <= 100

\* C5 (cache idempotence): with a connected cache and no bypass, once a call
\* has computed a "checked" result for a key, every later call with that key
\* returns that result, and runs no preprocessing, OCR, AI call or
\* plagiarism check.
C5_CacheIdempotence ==
    computed # Untracked =>
        \A c \in Calls :
            (call[c].pc \notin {"idle", "lookup", "raised"}
             /\ computed[call[c].cache_key] # None)
                => (Done(c) /\ call[c].out = computed[call[c].cache_key])

\* C6 (Scenario D): when an exception is raised inside the pipeline after
\* the cache lookup, the call returns status "failed", score 0, confidence
\* 0, an empty recognised text, the requested tier and the retry hint.
C6_ScenarioD ==
    \A c \in Calls :
        (Done(c) /\ call[c].exc # "")
            => /\ call[c].out.status = "failed"
               /\ call[c].out.score = 0
               /\ call[c].out.confidence_score = 0
               /\ call[c].out.recognized_text = ""
               /\ call[c].out.quality_level = call[c].quality
               /\ \E i \in DOMAIN call[c].out.suggestions :
                    call[c].out.suggestions[i] = RetryHint

\* a call in which preprocessing raised, and one in which the retries of
\* the analysis ran out, have returned
C6_Witness ==
    \E c \in Calls :
        /\ Done(c)
        /\ call[c].exc \in {"cv2.error", "RetryError"}
        /\ call[c].out.status = "failed"

\* C7: with no AI client, a check that misses the cache returns, in every
\* tier, status "checked" with the score and feedback of _basic_analysis.
C7_NoClientHeuristic ==
    \A c \in Calls :
        (Done(c) /\ ~settings.OPENAI_API_KEY /\ ~call[c].hit
                 /\ call[c].exc # "cv2.error")
            => (call[c].out.status = "checked" /\ IsHeuristicResult(c))

\* C8: plagiarism_score is present in a returned CheckingResult only if the
\* request's tier is premium.
C8_PlagiarismOnlyPremium ==
    \A c \in Calls :
        (Done(c) /\ call[c].out.plagiarism_score # None)
            => call[c].quality = CheckingQuality("premium")

\* C9 (validator total-defaulting): _validate_ai_response does not raise on
\* a response without score or with a numeric score; a response that lacks
\* score, feedback and detailed_analysis gets score 50, the default
\* feedback and an empty detailed_analysis; an absent confidence becomes
\* 0.8 and absent suggestions become []; every field present other than
\* score is returned unchanged; a numeric score is min(100, max(0, score)).
C9_ValidatorDefaults ==
    (probe # None /\ probe.fn = "validate" /\ probe.value # None) =>
        LET r == probe.arg
            v == probe.value
            numeric == "score" \in DOMAIN r /\ DOMAIN r.score = {"num"}
        IN  /\ ("score" \notin DOMAIN r \/ numeric) => v # Raised
            /\ v # Raised =>
                /\ (DOMAIN r \cap RequiredFields = {})
                      => /\ v.score = 50
                         /\ v.feedback = DefaultFeedback
                         /\ v.detailed_analysis = <<>>
                /\ "confidence" \notin DOMAIN r => v.confidence = 80
                /\ "suggestions" \notin DOMAIN r => v.suggestions = <<>>
                /\ \A k \in DOMAIN r \ {"score"} : v[k] = r[k]
                /\ numeric => v.score = Min2(100, Max2(0, r.score.num))

\* a response without any of the three required fields has been validated,
\* and so has one whose score is below the range
C9_Witness ==
    /\ probe # None
    /\ probe.fn = "validate"
    /\ probe.value # None
    /\ probe.value # Raised
    /\ \/ DOMAIN probe.arg \cap RequiredFields = {}
       \/ ("score" \in DOMAIN probe.arg /\ probe.arg.score = Num(0 - 5))

\* C10: the history works:<user_id> changes only in a premium call that
\* missed the cache and got its analysis, and only for that call's user.
C10_HistoryFrame ==
    [][\A u \in Users :
        works'[u] # works[u] =>
            \E c \in Calls :
                /\ call[c].pc = "plagiarism_push"
                /\ call[c].quality = CheckingQuality("premium")
                /\ ~call[c].hit
                /\ call[c].result # None
                /\ call[c].user_id = u
                /\ works'[u] = <<call[c].recognized_text>> \o works[u]
                /\ \A w \in Users \ {u} : works'[w] = works[w]]_vars

\* a premium call has put its text in its user's history, and the other
\* users' histories are empty
C10_Witness ==
    \E c \in Calls :
        /\ call[c].pc = "assemble"
        /\ call[c].quality = CheckingQuality("premium")
        /\ works[call[c].user_id] = <<call[c].recognized_text>>
        /\ \A w \in Users \ {call[c].user_id} : works[w] = <<>>

\* the entries of a history that lrange(key, 0, 100) returns
MostRecent(history) == SubSeq(history, 1, Min2(Len(history), HistoryRangeEnd + 1))

\* m is the maximum similarity between the text and the entries, 0 for no
\* entry
IsMaxOver(m, text, history) ==
    /\ \A i \in DOMAIN history : CalculateSimilarity(text, history[i]) <= m
    /\ \/ m = 0
       \/ \E i \in DOMAIN history : CalculateSimilarity(text, history[i]) = m

\* the uniqueness in the result is a number, and 100 minus it is the maximum
\* similarity between the text and the entries
UniquenessOver(value, text, history) ==
    /\ DOMAIN value = {"num"}
    /\ IsMaxOver(100 - value.num, text, history)

\* a premium call has come back from _check_plagiarism with a connected
\* cache; no other call runs, so the user's history before the call is the
\* tail of the list
AfterPlagiarism(c) ==
    /\ call[c].pc = "assemble"
    /\ call[c].quality = CheckingQuality("premium")
    /\ cache_manager.connected

\* C11 as stated: _check_plagiarism returns 100 - 100 * the maximum
\* similarity between the text and all the entries the user's history had
\* before the call, and prepends the text to that history.
C11_UniquenessWholeHistory ==
    \A c \in Calls :
        AfterPlagiarism(c) =>
            /\ Head(works[call[c].user_id]) = call[c].recognized_text
            /\ UniquenessOver(call[c].result.plagiarism_score, call[c].recognized_text,
                              Tail(works[call[c].user_id]))

\* C11 amended: _check_plagiarism returns 100 - 100 * the maximum similarity
\* between the text and the 101 most recent entries the user's history had
\* before the call (0 when it was empty), and prepends the text to that
\* history; so a text equal to the most recent entry gets 0, a text with
\* similarity 0 to each of the entries read gets 100, and the value is a
\* function of the text and of that user's history alone.
C11_UniquenessMostRecent ==
    \A c \in Calls :
        AfterPlagiarism(c) =>
            LET text == call[c].recognized_text
                before == Tail(works[call[c].user_id])
                value == call[c].result.plagiarism_score
            IN  /\ Head(works[call[c].user_id]) = text
                /\ UniquenessOver(value, text, MostRecent(before))
                /\ (before # <<>> /\ Head(before) = text) => value = Num(0)
                /\ (\A i \in DOMAIN MostRecent(before) :
                        CalculateSimilarity(text, before[i]) = 0) => value = Num(100)

\* a premium call has scored a text against a history longer than one
\* lrange reads, and another has scored the text its user submitted last
C11_Witness ==
    \E c \in Calls :
        /\ AfterPlagiarism(c)
        /\ \/ Len(works[call[c].user_id]) > HistoryRangeEnd + 2
           \/ /\ Len(works[call[c].user_id]) = 2
              /\ works[call[c].user_id][2] = call[c].recognized_text
              /\ call[c].result.plagiarism_score = Num(0)

\* _basic_analysis has returned
BasicDone == probe # None /\ probe.fn = "basic" /\ probe.value # None

\* C12: the heuristic score is: 0, plus 30 if the text is longer than 20
\* characters, plus 20 if it is longer than 100, plus the overlap (common
\* words over max(1, task words)) scaled by 40, plus 20, clamped to [0, 100].
C12_HeuristicFormula ==
    BasicDone =>
        LET text == probe.recognized_text
            task == probe.task_description
            overlap == (Cardinality(TaskWords(task) \cap TextWords(text)) * 40)
                            \div Max2(1, Cardinality(TaskWords(task)))
            total == (IF Len(text) > 20 THEN 30 ELSE 0)
                        + (IF Len(text) > 100 THEN 20 ELSE 0) + overlap + 20
        IN  probe.value.score = Max2(0, Min2(100, total))

\* the feedback lines that say the text was not recognised
UnrecognizedMarkers == {"FAIL text was not recognised"}

\* C13 (Scenario A): a basic-tier check whose recognised text is empty
\* returns score 20, status "checked" and a feedback that contains a marker
\* saying the text was not recognised.
C13_ScenarioA ==
    \A c \in Calls :
        (Done(c) /\ call[c].quality = CheckingQuality("basic") /\ ~call[c].hit
                 /\ call[c].exc = "" /\ call[c].recognized_text = "")
            => /\ call[c].out.score = 20
               /\ call[c].out.status = "checked"
               /\ \E i \in DOMAIN call[c].out.feedback :
                    call[c].out.feedback[i] \in UnrecognizedMarkers

\* C14 (heuristic monotonicity): for a fixed task description and two
\* recognised texts of the same length, if the task words occurring in the
\* first all occur in the second, the score of the first is at most the
\* score of the second.
C14_Monotonicity ==
    BasicDone =>
        \A other \in ProbeTexts :
            (/\ Len(other) = Len(probe.recognized_text)
             /\ CommonWords(probe.recognized_text, probe.task_description)
                    \subseteq CommonWords(other, probe.task_description))
                => probe.value.score <= BasicAnalysis(other, probe.task_description).score

\* a text has been scored, and a text of the same length with more of the
\* task's words scores more
C14_Witness ==
    /\ BasicDone
    /\ \E other \in ProbeTexts :
        /\ Len(other) = Len(probe.recognized_text)
        /\ CommonWords(probe.recognized_text, probe.task_description)
             # CommonWords(other, probe.task_description)
        /\ CommonWords(probe.recognized_text, probe.task_description)
             \subseteq CommonWords(other, probe.task_description)
        /\ probe.value.score < BasicAnalysis(other, probe.task_description).score

\* process_submission has committed
SubmissionDone ==
    probe # None /\ probe.fn = "process_submission" /\ probe.value # None

\* check_photo_submission returned a CheckingResult with status "checked"
ReturnedChecked ==
    /\ "returns" \in DOMAIN probe.outcome
    /\ probe.outcome.returns.status = "checked"

\* C15: process_submission marks the submission CHECKED, credits coins and
\* experience, counts the task as completed and records a reward
\* transaction only when the CheckingResult has status "checked".
C15_BranchOnStatus ==
    (/\ SubmissionDone
     /\ \/ probe.submission.status = "checked"
        \/ probe.user # probe.user0
        \/ probe.transactions # <<>>)
        => ReturnedChecked

\* C16: every started call eventually returns a CheckingResult: it does not
\* wait or retry forever, and it ends by returning.
C16_EventuallyReturns ==
    \A c \in Calls : \A n \in 1..MaxCalls :
        (started = n /\ call[c].pc \notin {"idle", "done"})
            ~> (started = n /\ call[c].pc = "done")

\* C17: after a connect() in which the client's ping raised, the manager is
\* disabled: is_connected() is False, redis_client is None and the client
\* that failed has been closed.
C17_ConnectFailureDisables ==
    (booted /\ cache_manager.built # None /\ cache_manager.built.ping_raised)
        => /\ ~cache_manager.connected
           /\ cache_manager.redis_client = None
           /\ cache_manager.built.closed

\* the number of times the call has invoked the AI completion service
Invocations(c) == IF settings.OPENAI_API_KEY THEN call[c].attempt ELSE 0

\* C18: within one call the AI service is invoked at most 3 times, the
\* basic tier invokes it 0 times, every invocation that fails counts as one
\* attempt, and there is no invocation after one that succeeded.
C18_AttemptCap ==
    /\ [](\A c \in Calls :
            /\ Invocations(c) <= 3
            /\ call[c].quality = CheckingQuality("basic") => Invocations(c) = 0)
    /\ [][\A c \in Calls :
            (call[c].pc # "idle" /\ call'[c].pc # "idle") =>
                /\ call'[c].ai_raised # call[c].ai_raised
                     => /\ call'[c].ai_raised = call[c].ai_raised + 1
                        /\ call'[c].attempt = call[c].attempt + 1
                /\ call[c].ai_json # None => call'[c].attempt = call[c].attempt]_vars

\* a call has invoked the AI service three times, the third time with
\* success after two failures
C18_Witness ==
    \E c \in Calls :
        /\ settings.OPENAI_API_KEY
        /\ call[c].attempt = 3
        /\ call[c].ai_raised = 2
        /\ call[c].ai_json # None
        /\ Done(c)

\* the steps after OCR: the scoring, the plagiarism check, the result
ScoringSteps == {"analysis", "plagiarism", "plagiarism_push", "assemble"}

\* C19: on a cache miss preprocessing and OCR run once, in this order and
\* before any scoring step: preprocessing starts only after the lookup, OCR
\* only after preprocessing, scoring only after OCR, and no scoring step
\* (an AI retry, the heuristic fallback) goes back to them or changes the
\* recognised text.
C19_OcrOnce ==
    [][\A c \in Calls :
        /\ (call'[c].pc = "preprocess" /\ call[c].pc # "preprocess")
              => call[c].pc = "lookup"
        /\ (call'[c].pc = "ocr" /\ call[c].pc # "ocr") => call[c].pc = "preprocess"
        /\ (call'[c].pc = "analysis" /\ call[c].pc # "analysis") => call[c].pc = "ocr"
        /\ (call[c].pc \in ScoringSteps /\ call'[c].pc # "idle")
              => /\ call'[c].pc \in ScoringSteps \cup {"done"}
                 /\ call'[c].pc # "done"
                        => call'[c].recognized_text = call[c].recognized_text]_vars

\* an advanced or premium call is about to retry the AI service on the text
\* that OCR recognised
C19_Witness ==
    \E c \in Calls :
        /\ call[c].pc = "analysis"
        /\ call[c].attempt = 2
        /\ call[c].recognized_text = "short"

\* C20: a malformed AI response never makes the check fail: when every
\* failed attempt of a call in an AI tier is an answer that is no JSON, or
\* whose score is no number, the call returns status "checked".
C20_MalformedNeverFails ==
    \A c \in Calls :
        (Done(c) /\ call[c].quality \in AITiers /\ settings.OPENAI_API_KEY
                 /\ ~call[c].hit /\ call[c].attempt >= 1 /\ call[c].ai_raised = 0)
            => call[c].out.status = "checked"

\* the step in which call c builds its CheckingResult and awaits
\* cache_manager.set(f"check:{cache_key}", ..., ttl=3600)
WritesEntry(c) == call[c].pc = "assemble" /\ call'[c].pc = "done"

\* the step in which call c awaits cache_manager.get(f"check:{cache_key}")
ReadsEntry(c) == call[c].pc = "lookup" /\ call'[c].pc # "lookup"

\* C21: every call reads the cache entry of its key exactly once, at the
\* start (the read is the first step of a started call, and no later step
\* goes back to it); the entries change only in the step in which a call
\* that missed has assembled its result, so a call that hits writes
\* nothing; and a call that missed and computed a result over a connected
\* cache leaves that result under check:<key> when it returns.
C21_ReadOnceWriteOnce ==
    [][\A c \in Calls :
          /\ (call[c].pc = "idle" /\ call'[c].pc # "idle")
                => call'[c].pc \in {"lookup", "raised"}
          /\ call'[c].pc = "lookup" => call[c].pc \in {"idle", "lookup"}
          /\ (booted /\ store' # store) => \E d \in Calls : WritesEntry(d) /\ ~call[d].hit
          /\ (ReadsEntry(c) /\ call'[c].hit) => (call'[c].pc = "done" /\ store' = store)
          /\ (WritesEntry(c) /\ cache_manager.connected)
                => store'[call[c].cache_key] = [json |-> call'[c].out]
      ]_vars


\* call c has returned a result it computed (status "checked") and passed
\* to cache_manager.set
ComputedDone(c) ==
    /\ Done(c)
    /\ ~call[c].hit
    /\ call[c].out.status = "checked"

\* C22: the entry written for a computed check is a faithful snapshot: once
\* a call has stored its CheckingResult with CacheManager.set over a
\* connected cache, CacheManager.get on its key followed by
\* CheckingResult(**entry) gives a result equal to the original in every
\* field, quality_level (a CheckingQuality member) and plagiarism_score
\* included.
C22_FaithfulSnapshot ==
    \A c \in Calls :
        (ComputedDone(c) /\ cache_manager.connected)
            => LET entry == CacheGet(call[c].cache_key)
               IN  /\ Truthy(entry)
                   /\ ~FromDictRaises(entry)
                   /\ FromDict(entry) = call[c].out


(***************************************************************************)
(* The specification of concurrent calls: the event loop interleaves the   *)
(* coroutines of several requests at their awaits; nothing in              *)
(* check_photo_submission or _check_plagiarism takes a lock.               *)
(***************************************************************************)
InitConcurrent ==
    /\ settings = [DEBUG |-> FALSE, OPENAI_API_KEY |-> TRUE]
    /\ cache_manager = NotConnected
    /\ booted = FALSE
    /\ store = EmptyStore
    /\ works \in InitialHistories
    /\ call = [c \in Calls |-> Idle]
    /\ started = 0
    /\ computed = Untracked
    /\ probe = None

\* the steps of basic and premium calls on a photo that can be read and
\* decoded, over a server that holds no entry, each call in a slot of its own
NextConcurrent ==
    \/ \E redis_url \in BOOLEAN, ping_ok \in BOOLEAN :
            Connect(redis_url, ping_ok, EmptyStore)
    \/ \E c \in Calls, task_description \in TaskDescriptions, user_id \in Users,
          quality \in {"basic", "premium"} :
            Start(c, "good", task_description, user_id, quality)
    \/ \E c \in Calls : CacheLookup(c)
    \/ \E c \in Calls : Preprocess(c)
    \/ \E c \in Calls, raises1 \in BOOLEAN :
            PerformOcr(c, raises1, "long", FALSE, "short_raw")
    \/ \E c \in Calls : BasicTier(c)
    \/ \E c \in Calls : AdvancedAttempt(c, AIReturns(RespGood))
    \/ \E c \in Calls : PlagiarismRead(c)
    \/ \E c \in Calls : PlagiarismPush(c)
    \/ \E c \in Calls : Assemble(c)
    \/ \E c \in Calls : Return(c)

SpecConcurrent == InitConcurrent /\ [][NextConcurrent]_vars

\* call c missed the cache and is in the pipeline, between the lookup and
\* the cache write
Computing(c) ==
    call[c].pc \in {"preprocess", "ocr", "analysis", "plagiarism", "plagiarism_push",
                    "assemble"}

\* C23: there is no single-flight on the cache key. When two concurrent
\* calls with the same key have both missed the cache, both computed a
\* result and both come to their return over a connected cache, the cache
\* holds under that key the result of one of the two, and no other key has
\* an entry.
C23_BothWriteSameKey ==
    \A c \in Calls, d \in Calls :
        (c # d /\ ComputedDone(c) /\ ComputedDone(d) /\ cache_manager.connected
         /\ call[c].cache_key = call[d].cache_key)
            => /\ store[call[c].cache_key] \in
                    {[json |-> call[c].out], [json |-> call[d].out]}
               /\ \A k \in CacheKeys \ {call[c].cache_key} : store[k] = None

\* two concurrent calls with the same key have both missed the connected
\* cache and are both computing
C23_BothComputing ==
    /\ cache_manager.connected
    /\ Computing(1) /\ Computing(2)
    /\ call[1].cache_key = call[2].cache_key


\* the calls that come back from _check_plagiarism for user u in this step
PlagiarismReturns(u) ==
    {c \in Calls : /\ call[c].pc = "plagiarism_push"
                   /\ call'[c].pc = "assemble"
                   /\ call[c].user_id = u}

\* the entries a call took from lrange(f"works:{user_id}", 0, 100)
ReadAtMostRange ==
    \A c \in Calls : Len(call[c].similar_works) <= HistoryRangeEnd + 1

InitOcr ==
    /\ settings = [DEBUG |-> FALSE, OPENAI_API_KEY |-> FALSE]
    /\ cache_manager = NotConnected
    /\ booted = FALSE
    /\ store = EmptyStore
    /\ works = [u \in Users |-> <<>>]
    /\ call = [c \in Calls |-> Idle]
    /\ started = 0
    /\ computed = Untracked
    /\ probe \in {[fn |-> "ocr", raises1 |-> r1, text1 |-> t1, raises2 |-> r2,
                   text2 |-> t2, value |-> None] :
                        r1 \in BOOLEAN, t1 \in OcrOutputs, r2 \in BOOLEAN, t2 \in OcrOutputs}

\* await self._perform_ocr(photo_path, processed_image) is called
ApplyOcr ==
    /\ probe # None
    /\ probe.fn = "ocr"
    /\ probe.value = None
    /\ LET texts == (IF probe.raises1 THEN <<>> ELSE <<probe.text1>>)
                    \o (IF probe.raises2 THEN <<>> ELSE <<probe.text2>>)
       IN  probe' = [probe EXCEPT !.value = [text |-> PerformOcrOn(texts)]]
    /\ UNCHANGED <<settings, cache_manager, booted, store, works, call, started, computed>>

SpecOcr == InitOcr /\ [][ApplyOcr]_vars

OcrDone == probe # None /\ probe.fn = "ocr" /\ probe.value # None

\* the name of the text _clean_ocr_text makes of a raw output
Cleaned(raw) == NameOf(CleanOcrText(Chars(raw)))

\* C25: _perform_ocr returns a text whatever the attempts do: the cleaned
\* output of the attempt that did not throw when the other did, the empty
\* string when both threw, and otherwise the cleaned text of the longer of
\* the two outputs, the first attempt's on a tie.
C25_OcrSelection ==
    OcrDone =>
        /\ DOMAIN probe.value = {"text"}
        /\ probe.value.text =
             IF probe.raises1 /\ probe.raises2 THEN ""
             ELSE IF probe.raises1 THEN Cleaned(probe.text2)
             ELSE IF probe.raises2 THEN Cleaned(probe.text1)
             ELSE IF Len(Chars(probe.text2)) > Len(Chars(probe.text1))
                  THEN Cleaned(probe.text2)
                  ELSE Cleaned(probe.text1)

\* both attempts returned, with different outputs of one length, and the
\* result is the first one's cleaned text, which is not the second's
C25_Witness ==
    /\ OcrDone
    /\ ~probe.raises1 /\ ~probe.raises2
    /\ probe.text1 # probe.text2
    /\ Len(Chars(probe.text1)) = Len(Chars(probe.text2))
    /\ probe.value.text = Cleaned(probe.text1)
    /\ probe.value.text # Cleaned(probe.text2)


(***************************************************************************)
(* Concurrent calls over a server that may hold entries under check:<key>  *)
(* when the application connects to it.                                    *)
(***************************************************************************)
NextShared ==
    \/ \E redis_url \in BOOLEAN, ping_ok \in BOOLEAN, content \in ServerContents :
            Connect(redis_url, ping_ok, content)
    \/ NextConcurrent
    \/ \E c \in Calls : Propagate(c)

SpecShared == InitConcurrent /\ [][NextShared]_vars

\* call c found an entry under its key: it returned the CheckingResult made
\* of it, or CheckingResult(**cached_result) raised
FoundEntry(c) ==
    \/ Done(c) /\ call[c].hit
    \/ call[c].pc = "raised" /\ call[c].exc = "TypeError"

\* what the caller of call c gets
Outcome(c) == <<call[c].pc, call[c].out, call[c].exc>>

\* C26: the result of a cache hit does not depend on the user_id or the
\* quality of the call that hits: two calls that find the same entry get
\* the same outcome, whatever their users and tiers, and the CheckingResult
\* returned carries the quality_level and the plagiarism_score stored in the
\* entry.
C26_HitIgnoresRequester ==
    \A c \in Calls, d \in Calls :
        (FoundEntry(c) /\ FoundEntry(d) /\ call[c].cache_key = call[d].cache_key)
            => /\ Outcome(c) = Outcome(d)
               /\ Done(c) =>
                    LET entry == store[call[c].cache_key].json
                    IN  /\ call[c].out.quality_level = entry.quality_level
                        /\ call[c].out.plagiarism_score = entry.plagiarism_score

\* two calls of different users and different tiers have hit the same entry
C26_Witness ==
    /\ Done(1) /\ call[1].hit
    /\ Done(2) /\ call[2].hit
    /\ call[1].cache_key = call[2].cache_key
    /\ call[1].user_id # call[2].user_id
    /\ call[1].quality # call[2].quality
    /\ call[1].out.quality_level \notin {call[1].quality, call[2].quality}


\* the exceptions that end a check or make it fail for a reason that is not
\* the cache: the photo is missing or is no image, the AI service gave up
OtherFailures == {"", "FileNotFoundError", "cv2.error", "RetryError"}

\* while the cache is not connected: get gives None, set stores nothing,
\* lrange gives the empty list and lpush adds nothing; no call returns a
\* cached result or fails on one; every premium call that comes back from
\* its plagiarism check has plagiarism_score 100
DisconnectedDegrades ==
    ~cache_manager.connected =>
        /\ \A k \in CacheKeys :
              /\ CacheGet(k) = None
              /\ CacheSet(k, ForeignSnapshot) = store
        /\ \A u \in Users :
              /\ CacheLrange(u, HistoryRangeEnd) = <<>>
              /\ CacheLpush(u, "long") = works
        /\ \A c \in Calls :
              /\ ~call[c].hit
              /\ call[c].exc \in OtherFailures
              /\ call[c].similar_works = <<>>
              /\ (call[c].quality = CheckingQuality("premium")
                  /\ (call[c].pc = "assemble" \/ ComputedDone(c)))
                    => DictGet(IF Done(c) THEN call[c].out ELSE call[c].result,
                               "plagiarism_score", None) = Num(100)

\* C27: a disconnected cache degrades silently and never fails a check:
\* while is_connected() is False, get returns None, set stores nothing,
\* lpush adds nothing and lrange returns [], so that every call recomputes
\* its result (none is a cache hit, none fails on the cache), no step
\* changes an entry or a history, and every premium check that is computed
\* reports plagiarism_score = 100.
C27_DisconnectedDegrades ==
    /\ []DisconnectedDegrades
    /\ [][(booted /\ ~cache_manager.connected)
            => (store' = store /\ works' = works /\ cache_manager' = cache_manager)]_vars

\* the ping failed, the server holds a history of the user that has the
\* very text of a premium check, and the check returned uniqueness 100
C27_Witness ==
    \E c \in Calls :
        /\ ~cache_manager.connected
        /\ cache_manager.redis_client # None
        /\ ComputedDone(c)
        /\ call[c].quality = CheckingQuality("premium")
        /\ \E i \in DOMAIN works[call[c].user_id] :
                works[call[c].user_id][i] = call[c].recognized_text
        /\ call[c].out.plagiarism_score = Num(100)


(***************************************************************************)
(* AuthService.authenticate_user (app/auth.py) on one row of users: the    *)
(* clock is in minutes, and each call names the user or not and has the    *)
(* right password or not.                                                  *)
(***************************************************************************)
\* the minutes the clock of the model runs
MaxTime == 40

\* if user.failed_login_attempts >= 5
MaxFailedLogins == 5

\* timedelta(minutes=30)
LockMinutes == 30

\* the minutes that pass between two calls
Elapses == {1, LockMinutes}

\* a datetime; None stands for NULL
At(t) == [at |-> t]

\* HTTPException(status_code=status.HTTP_423_LOCKED)
Http423 == [raised |-> 423]

\* a check that never finds the account locked
LockedUntilIgnored(user, now) == FALSE

\* user.locked_until and user.locked_until > datetime.utcnow()
LockedUntilFuture(user, now) ==
    user.locked_until # None /\ user.locked_until.at > now

InitAuth ==
    /\ settings = [DEBUG |-> FALSE, OPENAI_API_KEY |-> FALSE]
    /\ cache_manager = NotConnected
    /\ booted = FALSE
    /\ store = EmptyStore
    /\ works = [u \in Users |-> <<>>]
    /\ call = [c \in Calls |-> Idle]
    /\ started = 0
    /\ computed = Untracked
    /\ probe = [fn |-> "auth", now |-> 0,
                user |-> [failed_login_attempts |-> 0, locked_until |-> None,
                          last_login |-> None],
                last |-> None]

\* datetime.utcnow() moves on
Tick(d) ==
    /\ probe # None
    /\ probe.fn = "auth"
    /\ probe.now + d <= MaxTime
    /\ probe' = [probe EXCEPT !.now = @ + d]
    /\ UNCHANGED <<settings, cache_manager, booted, store, works, call, started, computed>>

\* AuthService.authenticate_user(db, username, password): found says that
\* the username or e-mail selects the row, password_ok that verify_password
\* is true; last records the call and what it returned or raised
AuthenticateUser(found, password_ok) ==
    /\ probe # None
    /\ probe.fn = "auth"
    /\ LET user == probe.user
           now == probe.now
           failed == user.failed_login_attempts + 1
           ret(v) == [found |-> found, password_ok |-> password_ok, value |-> v]
       IN  probe' =
             IF ~found
             THEN [probe EXCEPT !.last = ret([returned |-> "None"])]
             ELSE IF LockedUntilFuture(user, now)
             THEN [probe EXCEPT !.last = ret(Http423)]
             ELSE IF ~password_ok
             THEN IF failed >= MaxFailedLogins
                  THEN [probe EXCEPT !.user.failed_login_attempts = failed,
                                     !.user.locked_until = At(now + LockMinutes),
                                     !.last = ret(Http423)]
                  ELSE [probe EXCEPT !.user.failed_login_attempts = failed,
                                     !.last = ret([returned |-> "None"])]
             ELSE [probe EXCEPT !.user.failed_login_attempts = 0,
                                !.user.last_login = At(now),
                                !.last = ret([returned |-> "user"])]
    /\ UNCHANGED <<settings, cache_manager, booted, store, works, call, started, computed>>

NextAuth ==
    \/ \E d \in Elapses : Tick(d)
    \/ \E found \in BOOLEAN, password_ok \in BOOLEAN : AuthenticateUser(found, password_ok)

SpecAuth == InitAuth /\ [][NextAuth]_vars

\* C28: login lockout. In every call of authenticate_user that finds the
\* user: while locked_until is in the future the call raises 423 and leaves
\* the row as it is, whatever the password; otherwise a failed password
\* check adds exactly 1 to failed_login_attempts, and the one that brings it
\* to 5 or more sets locked_until 30 minutes ahead and raises 423, while
\* the others return None and leave locked_until alone; a call returns the
\* user only when the account is not locked and the password is right, and
\* the counter goes back to 0 in such a call only.
C28_LoginLockout ==
    [][(probe'.now = probe.now /\ probe'.last.found) =>
        LET user == probe.user
            after == probe'.user
            in == probe'.last
            locked == user.locked_until # None /\ user.locked_until.at > probe.now
        IN  /\ locked => (in.value = Http423 /\ after = user)
            /\ (~locked /\ ~in.password_ok) =>
                  /\ after.failed_login_attempts = user.failed_login_attempts + 1
                  /\ IF after.failed_login_attempts >= 5
                     THEN /\ after.locked_until = At(probe.now + 30)
                          /\ in.value = Http423
                     ELSE /\ after.locked_until = user.locked_until
                          /\ in.value = [returned |-> "None"]
            /\ in.value = [returned |-> "user"] <=> (~locked /\ in.password_ok)
            /\ (after.failed_login_attempts = 0 /\ user.failed_login_attempts # 0)
                  => in.value = [returned |-> "user"]
            /\ in.value = [returned |-> "user"] => after.failed_login_attempts = 0
      ]_vars

\* the fifth failure locked the account, and a call with the right password
\* made 29 minutes later was refused with 423, the counter still at 5
C28_Witness ==
    /\ probe.user.failed_login_attempts = 5
    /\ probe.user.locked_until = At(LockMinutes)
    /\ probe.now = LockMinutes - 1
    /\ probe.last = [found |-> TRUE, password_ok |-> TRUE, value |-> Http423]


(***************************************************************************)
(* purchase_item (app/routers/shop.py), for one user, the requests          *)
(* processed one at a time.                                                *)
(***************************************************************************)
\* the most coins the user starts with
MaxCoins == 9

\* ShopItem.stock: an integer; None stands for NULL (no limit)
Stock(n) == [units |-> n]

\* the rows of shop_items when the requests start
ShopItems ==
    <<[item_type |-> "avatar", price_coins |-> 3, stock |-> None,
       is_available |-> TRUE, purchases_count |-> 0],
      [item_type |-> "boost", price_coins |-> 2, stock |-> Stock(2),
       is_available |-> TRUE, purchases_count |-> 0],
      [item_type |-> "badge", price_coins |-> 4, stock |-> Stock(1),
       is_available |-> TRUE, purchases_count |-> 0],
      [item_type |-> "boost", price_coins |-> 1, stock |-> Stock(0),
       is_available |-> TRUE, purchases_count |-> 0],
      [item_type |-> "theme", price_coins |-> 1, stock |-> None,
       is_available |-> FALSE, purchases_count |-> 0]>>

\* the item_id of the requests: the rows, and an id that has no row
ItemIds == 1..(Len(ShopItems) + 1)

\* item_type in ['avatar', 'badge']
UniqueTypes == {"avatar", "badge"}

\* raise HTTPException(status_code=...)
HttpError(status_code) == [raised |-> status_code]

InitShop ==
    /\ settings = [DEBUG |-> FALSE, OPENAI_API_KEY |-> FALSE]
    /\ cache_manager = NotConnected
    /\ booted = FALSE
    /\ store = EmptyStore
    /\ works = [u \in Users |-> <<>>]
    /\ call = [c \in Calls |-> Idle]
    /\ started = 0
    /\ computed = Untracked
    /\ probe \in {[fn |-> "shop", coins |-> n, items |-> ShopItems, purchases |-> <<>>,
                   transactions |-> <<>>, last |-> None] : n \in 0..MaxCoins}

\* a stock check that lets a stock of 0 through
OutOfStockBelowZero(item) == item.stock # None /\ item.stock.units < 0

\* item.stock is not None and item.stock <= 0
OutOfStock(item) == item.stock # None /\ item.stock.units <= 0

\* a Purchase of the user for the item exists
AlreadyOwned(purchases, item_id) ==
    \E i \in DOMAIN purchases : purchases[i].item_id = item_id

\* the item after a purchase: stock, is_available, purchases_count
Sold(item) ==
    LET left == IF item.stock = None THEN None ELSE Stock(item.stock.units - 1)
    IN  [item EXCEPT !.stock = left,
                     !.is_available = IF left = Stock(0) THEN FALSE ELSE @,
                     !.purchases_count = @ + 1]

\* POST /purchase with purchase_data.item_id = item_id; last records the
\* request and the response
PurchaseItem(item_id) ==
    /\ probe # None
    /\ probe.fn = "shop"
    /\ LET found == item_id \in DOMAIN probe.items /\ probe.items[item_id].is_available
           item == probe.items[item_id]
           ret(v) == [item_id |-> item_id, response |-> v]
       IN  probe' =
             IF ~found THEN [probe EXCEPT !.last = ret(HttpError(404))]
             ELSE IF OutOfStock(item) THEN [probe EXCEPT !.last = ret(HttpError(400))]
             ELSE IF probe.coins < item.price_coins
             THEN [probe EXCEPT !.last = ret(HttpError(400))]
             ELSE IF item.item_type \in UniqueTypes /\ AlreadyOwned(probe.purchases, item_id)
             THEN [probe EXCEPT !.last = ret(HttpError(400))]
             ELSE [probe EXCEPT
                     !.coins = @ - item.price_coins,
                     !.items[item_id] = Sold(item),
                     !.purchases = Append(@, [item_id |-> item_id,
                                              price_coins |-> item.price_coins]),
                     !.transactions = Append(@, [coins_amount |-> 0 - item.price_coins,
                                                 coins_balance |-> probe.coins
                                                                    - item.price_coins]),
                     !.last = ret([purchased |-> item_id])]
    /\ UNCHANGED <<settings, cache_manager, booted, store, works, call, started, computed>>

NextShop == \E item_id \in ItemIds : PurchaseItem(item_id)

SpecShop == InitShop /\ [][NextShop]_vars

\* the request of this step was rejected
Rejected == DOMAIN probe'.last.response = {"raised"}

\* C29: for purchase_item requests processed one at a time, from coins >= 0
\* and stocks None or >= 0: the coins and the stocks never become negative;
\* an item whose stock reaches 0 is made unavailable; a request for an item
\* that is missing or unavailable, out of stock, too dear, or an avatar or
\* badge already owned is rejected, and a rejected request changes neither
\* the coins, the items (stock, purchases_count) nor the purchase and
\* transaction records.
C29_PurchaseInvariants ==
    /\ [](probe.coins >= 0
          /\ \A i \in DOMAIN probe.items :
                probe.items[i].stock = None \/ probe.items[i].stock.units >= 0)
    /\ [][/\ \A i \in DOMAIN probe.items :
                (probe'.items[i].stock = Stock(0) /\ probe.items[i].stock # Stock(0))
                    => ~probe'.items[i].is_available
          /\ LET id == probe'.last.item_id
                 missing == id \notin DOMAIN probe.items
             IN  (\/ missing
                  \/ ~probe.items[id].is_available
                  \/ probe.items[id].stock = Stock(0)
                  \/ probe.coins < probe.items[id].price_coins
                  \/ (probe.items[id].item_type \in {"avatar", "badge"}
                      /\ \E j \in DOMAIN probe.purchases : probe.purchases[j].item_id = id))
                    => Rejected
          /\ Rejected => /\ probe'.coins = probe.coins
                         /\ probe'.items = probe.items
                         /\ probe'.purchases = probe.purchases
                         /\ probe'.transactions = probe.transactions
       ]_vars

\* the last unit of a stocked item was sold: the item is unavailable, the
\* coins are spent to the last one, and the next request for it got 404
C29_Witness ==
    /\ probe.coins = 0
    /\ \E i \in DOMAIN probe.items :
          /\ probe.items[i].stock = Stock(0)
          /\ ~probe.items[i].is_available
          /\ probe.items[i].purchases_count = 2
          /\ probe.last = [item_id |-> i, response |-> HttpError(404)]


(***************************************************************************)
(* RateLimitMiddleware._check_rate_limit_memory (app/middleware/           *)
(* rate_limit.py): the limiter used while the cache is not connected.  The *)
(* clock is in seconds; allowed is the history of the requests let through.*)
(***************************************************************************)
\* the largest max_requests, the largest window_seconds and the seconds the
\* clock of the model runs
MaxRequests == 2
MaxWindow == 2
MaxClock == 3

\* the client ids _get_client_id gives
RateClients == {"user:1", "ip:unknown"}

SetMinOf(S) == CHOOSE x \in S : \A y \in S : x <= y

\* [t for t in requests if t > window_start]
RECURSIVE Recent(_, _)
Recent(requests, window_start) ==
    IF requests = <<>> THEN <<>>
    ELSE IF Head(requests) > window_start
         THEN <<Head(requests)>> \o Recent(Tail(requests), window_start)
         ELSE Recent(Tail(requests), window_start)

\* a limit check that lets one request more through
UnderLimitInclusive(current_count, max_requests) == current_count <= max_requests

\* is_allowed = current_count < self.max_requests
UnderLimit(current_count, max_requests) == current_count < max_requests

InitRate ==
    /\ settings = [DEBUG |-> FALSE, OPENAI_API_KEY |-> FALSE]
    /\ cache_manager = NotConnected
    /\ booted = FALSE
    /\ store = EmptyStore
    /\ works = [u \in Users |-> <<>>]
    /\ call = [c \in Calls |-> Idle]
    /\ started = 0
    /\ computed = Untracked
    /\ probe \in {[fn |-> "rate", max_requests |-> m, window_seconds |-> w, now |-> 0,
                   request_counts |-> [c \in RateClients |-> <<>>],
                   allowed |-> [c \in RateClients |-> <<>>],
                   last |-> None] : m \in 1..MaxRequests, w \in 1..MaxWindow}

\* time.time() moves on
ClockTick ==
    /\ probe # None
    /\ probe.fn = "rate"
    /\ probe.now < MaxClock
    /\ probe' = [probe EXCEPT !.now = @ + 1]
    /\ UNCHANGED <<settings, cache_manager, booted, store, works, call, started, computed>>

\* _check_rate_limit(client_id) with the cache not connected:
\* _check_rate_limit_memory(client_id)
CheckRateLimitMemory(client_id) ==
    /\ probe # None
    /\ probe.fn = "rate"
    /\ ~cache_manager.connected
    /\ LET current_time == probe.now
           window_start == current_time - probe.window_seconds
           pruned == Recent(probe.request_counts[client_id], window_start)
           current_count == Len(pruned)
           is_allowed == UnderLimit(current_count, probe.max_requests)
           requests == IF is_allowed THEN Append(pruned, current_time) ELSE pruned
           remaining == Max2(0, probe.max_requests - current_count - 1)
           reset_time == IF requests # <<>>
                         THEN SetMinOf({requests[i] : i \in DOMAIN requests})
                                + probe.window_seconds
                         ELSE current_time + probe.window_seconds
       IN  probe' = [probe EXCEPT
                        !.request_counts[client_id] = requests,
                        !.allowed[client_id] =
                            IF is_allowed THEN Append(@, current_time) ELSE @,
                        !.last = [client_id |-> client_id, is_allowed |-> is_allowed,
                                  remaining |-> remaining, reset_time |-> reset_time]]
    /\ UNCHANGED <<settings, cache_manager, booted, store, works, call, started, computed>>

NextRate ==
    \/ ClockTick
    \/ \E client_id \in RateClients : CheckRateLimitMemory(client_id)

SpecRate == InitRate /\ [][NextRate]_vars

\* the number of the timestamps of the list that lie in the window of
\* window_seconds that ends at (and includes) the instant
CountInWindow(times, end) ==
    Cardinality({i \in DOMAIN times :
                    times[i] > end - probe.window_seconds /\ times[i] <= end})

\* C30: in-memory rate limiting: for every client and every window of
\* window_seconds, at most max_requests requests are allowed; the stored
\* list of a client never holds more than max_requests entries inside the
\* window; a denied request is not recorded; and a request is allowed as
\* soon as the client's oldest recorded request has left the window.  A
\* request changes the list of its client alone.
C30_RateLimit ==
    /\ [](\A c \in RateClients :
            /\ \A end \in 0..probe.now :
                    CountInWindow(probe.allowed[c], end) <= probe.max_requests
            /\ CountInWindow(probe.request_counts[c], probe.now) <= probe.max_requests)
    /\ [][probe'.now = probe.now =>
            LET c == probe'.last.client_id
                before == probe.request_counts[c]
                oldest == SetMinOf({before[i] : i \in DOMAIN before})
            IN  /\ \A d \in RateClients \ {c} :
                        /\ probe'.request_counts[d] = probe.request_counts[d]
                        /\ probe'.allowed[d] = probe.allowed[d]
                /\ ~probe'.last.is_allowed =>
                        /\ probe'.allowed[c] = probe.allowed[c]
                        /\ \A t \in 0..probe.now :
                             Cardinality({i \in DOMAIN probe'.request_counts[c] :
                                             probe'.request_counts[c][i] = t})
                               <= Cardinality({i \in DOMAIN before : before[i] = t})
                        /\ CountInWindow(before, probe.now) >= probe.max_requests
                /\ probe'.last.is_allowed =>
                        probe'.allowed[c] = Append(probe.allowed[c], probe.now)
                /\ (before # <<>> /\ oldest <= probe.now - probe.window_seconds)
                        => probe'.last.is_allowed
          ]_vars

\* a client used up its requests, was denied inside the window, and was let
\* through again at the instant its oldest request left the window, while
\* the other client was not limited
C30_Witness ==
    /\ probe.max_requests = 2 /\ probe.window_seconds = 2
    /\ probe.allowed["user:1"] = <<0, 0, 2>>
    /\ probe.request_counts["user:1"] = <<2>>
    /\ probe.allowed["ip:unknown"] = <<1>>
    /\ probe.last = [client_id |-> "user:1", is_allowed |-> TRUE, remaining |-> 1,
                     reset_time |-> 4]

====
